---- MODULE Spec2Model ----
(***************************************************************************)
(* gdb-check (src/gdbcheck/gdbcheck.py): check out each revision, build,   *)
(* run the test suite, copy gdb.sum / gdb.log to a results directory and   *)
(* print the commands that compare the result files.                       *)
(*                                                                         *)
(* The state is main()'s local variables, the position of the control in  *)
(* main(), and the world the external commands act on (working tree, build *)
(* directory, results files).  Python strings are TLA+ strings; the text   *)
(* functions (join, slicing, format, shlex.quote) are computed character   *)
(* by character.  The text read from a git command is the sequence of the  *)
(* code points of its characters; strip and split work on the code points  *)
(* and the result becomes a string again.  The exit status and the         *)
(* standard output of every external process are chosen by the             *)
(* environment.                                                            *)
(***************************************************************************)
EXTENDS Integers, Sequences, FiniteSets, TLC

VARIABLES
    args,           \* the parsed command line (argparse namespace)
    pc,             \* position of the control in main()
    results_path,   \* main: results_path
    before_sha1,    \* main: before_sha1
    after_sha1,     \* main: after_sha1
    rev_stdout,     \* standard output of git rev-list (code points)
    rev_list,       \* main: rev_list
    specs_to_test,  \* main: specs_to_test
    i,              \* index of the spec under test (enumerate, from 0)
    step,           \* the execute() call of test_spec that comes next (1..5)
    cmds,           \* every execute() call so far: what it printed
    launched,       \* the execute() calls that started a process
    rcs,            \* exit statuses of the processes that have exited
    running,        \* the processes started and not yet exited
    queries,        \* the check_output() calls so far (git queries)
    out,            \* the lines main prints itself (print, not cprint)
    comparisons,    \* the compare_results() calls so far
    tmpdirs,        \* directories created by tempfile.mkdtemp
    slept,          \* TRUE once time.sleep(2) was called
    worktree,       \* commit checked out in the source tree
    builddir,       \* what the build directory holds
    files,          \* files present in the results directory
    failed,         \* the execute() call whose failure aborted the run
    exit_code       \* exit status of the program, -1 while it runs

vars == << args, pc, results_path, before_sha1, after_sha1, rev_stdout,
           rev_list, specs_to_test, i, step, cmds, launched, rcs, running,
           queries, out, comparisons, tmpdirs, slept, worktree, builddir,
           files, failed, exit_code >>

(***************************************************************************)
(* Bounds of the model.                                                    *)
(***************************************************************************)
\* Largest number of revisions git rev-list prints.
MaxRevs == 3

(***************************************************************************)
(* Program constants.                                                      *)
(***************************************************************************)
\* BuildAndTestSpec.short_sha1: self.sha1[:12]
ShortLen == 12
\* "{:02}".format(i): minimum width of the index
IndexWidth == 2

(***************************************************************************)
(* Python text functions.                                                  *)
(***************************************************************************)
CharAt(s, k) == SubSeq(s, k, k)

\* The characters of code points 32 to 95 and 97 to 126, in order (a
\* string of this language cannot hold the character of code point 96).
PrintableLow ==
    " !\"#$%&'()*+,-./0123456789:;<=>?@ABCDEFGHIJKLMNOPQRSTUVWXYZ[\\]^_"
PrintableHigh ==
    "abcdefghijklmnopqrstuvwxyz{|}~"

\* chr(c), for the code points the strings of this module are made of.
Chr ==
    [ c \in { 9, 10, 12, 13 } \cup 32..95 \cup 97..126 |->
        CASE c = 9   -> "\t"
          [] c = 10  -> "\n"
          [] c = 12  -> "\f"
          [] c = 13  -> "\r"
          [] c >= 97 -> CharAt(PrintableHigh, c - 96)
          [] OTHER   -> CharAt(PrintableLow, c - 31) ]

\* ord(ch)
Ord(ch) == CHOOSE c \in DOMAIN Chr : Chr[c] = ch

\* The code points of the characters of a string.
CodePoints(str) == [ k \in 1..Len(str) |-> Ord(CharAt(str, k)) ]

\* The string of the characters with the code points cps.
RECURSIVE Str(_)
Str(cps) ==
    IF Len(cps) = 0 THEN ""
    ELSE IF Len(cps) = 1 THEN Chr[cps[1]]
    ELSE LET h == Len(cps) \div 2
         IN  Str(SubSeq(cps, 1, h)) \o Str(SubSeq(cps, h + 1, Len(cps)))

\* The text check_output returns is a Python str; below it is the sequence
\* of the code points of its characters.
LF == 10
CR == 13

\* The positions of the code point sep in s.
SepPositions(s, sep) == { k \in 1..Len(s) : s[k] = sep }

\* The code points str.isspace() is true of, which str.strip() removes:
\* \t \n \v \f \r, U+001C to U+001F, space, U+0085, U+00A0, U+1680,
\* U+2000 to U+200A, U+2028, U+2029, U+202F, U+205F, U+3000.
Whitespace ==
    9..13 \cup 28..32 \cup { 133, 160, 5760 } \cup 8192..8202
        \cup { 8232, 8233, 8239, 8287, 12288 }

\* universal_newlines=True: the text layer of subprocess turns "\r\n" and a
\* lone "\r" of the child's output into "\n".
RECURSIVE UniversalNewlines(_)
UniversalNewlines(s) ==
    LET cr == SepPositions(s, CR) IN
    IF cr = {}
    THEN s
    ELSE LET p == CHOOSE q \in cr : \A r \in cr : q <= r
             skip == IF p < Len(s) /\ s[p + 1] = LF THEN 2 ELSE 1
         IN  SubSeq(s, 1, p - 1) \o << LF >>
                 \o UniversalNewlines(SubSeq(s, p + skip, Len(s)))

RECURSIVE LStrip(_)
LStrip(s) ==
    IF Len(s) > 0 /\ s[1] \in Whitespace
    THEN LStrip(SubSeq(s, 2, Len(s)))
    ELSE s

RECURSIVE RStrip(_)
RStrip(s) ==
    IF Len(s) > 0 /\ s[Len(s)] \in Whitespace
    THEN RStrip(SubSeq(s, 1, Len(s) - 1))
    ELSE s

\* str.strip()
Strip(s) == RStrip(LStrip(s))

\* The n-th smallest position of the set pos.
NthPosition(pos, n) ==
    CHOOSE p \in pos : Cardinality({ q \in pos : q <= p }) = n

\* str.split(sep) for a one-character sep: the fields between the
\* occurrences of sep, always at least one field, so "".split("\n") is [""].
Split(s, sep) ==
    LET pos == SepPositions(s, sep)
        n   == Cardinality(pos)
    IN  [ f \in 1..(n + 1) |->
            SubSeq(s,
                   IF f = 1 THEN 1 ELSE NthPosition(pos, f - 1) + 1,
                   IF f = n + 1 THEN Len(s) ELSE NthPosition(pos, f) - 1) ]

\* sep.join(parts)
RECURSIVE Join(_, _)
Join(parts, sep) ==
    IF Len(parts) = 0 THEN ""
    ELSE IF Len(parts) = 1 THEN parts[1]
    ELSE parts[1] \o sep \o Join(Tail(parts), sep)

\* s[:n]
Prefix(s, n) == SubSeq(s, 1, IF Len(s) < n THEN Len(s) ELSE n)

\* os.path.join(a, b) for a relative b
PathJoin(a, b) ==
    IF Len(a) = 0 \/ CharAt(a, Len(a)) = "/" THEN a \o b ELSE a \o "/" \o b

\* "{:02}".format(n)
RECURSIVE ZeroPad(_, _)
ZeroPad(s, width) == IF Len(s) < width THEN ZeroPad("0" \o s, width) ELSE s

Format02(n) == ZeroPad(ToString(n), IndexWidth)

\* shlex.quote(s): s itself when it is made of safe characters only,
\* else s between single quotes with every ' replaced by '"'"'.
SafeChars ==
    { "a", "b", "c", "d", "e", "f", "g", "h", "i", "j", "k", "l", "m", "n",
      "o", "p", "q", "r", "s", "t", "u", "v", "w", "x", "y", "z",
      "A", "B", "C", "D", "E", "F", "G", "H", "I", "J", "K", "L", "M", "N",
      "O", "P", "Q", "R", "S", "T", "U", "V", "W", "X", "Y", "Z",
      "0", "1", "2", "3", "4", "5", "6", "7", "8", "9",
      "@", "%", "+", "=", ":", ",", ".", "/", "-", "_" }

RECURSIVE AllSafe(_)
AllSafe(s) ==
    \/ Len(s) = 0
    \/ CharAt(s, 1) \in SafeChars /\ AllSafe(SubSeq(s, 2, Len(s)))

RECURSIVE EscapeQuotes(_)
EscapeQuotes(s) ==
    IF Len(s) = 0 THEN ""
    ELSE (IF CharAt(s, 1) = "'" THEN "'\"'\"'" ELSE CharAt(s, 1))
         \o EscapeQuotes(SubSeq(s, 2, Len(s)))

ShlexQuote(s) ==
    IF Len(s) = 0 THEN "''"
    ELSE IF AllSafe(s) THEN s
    ELSE "'" \o EscapeQuotes(s) \o "'"

(***************************************************************************)
(* BuildAndTestSpec and the command lines of test_spec.                    *)
(***************************************************************************)
BuildAndTestSpec(src_path, build_path, res_path, sha1, j, runtest_flags, tests) ==
    [ src_path |-> src_path, build_path |-> build_path,
      results_path |-> res_path, sha1 |-> sha1, j |-> j,
      runtest_flags |-> runtest_flags, tests |-> tests ]

short_sha1(spec) == Prefix(spec.sha1, ShortLen)

\* Variant of Suffix: the index is left out of the suffix.
SuffixWithoutIndex(n, spec) == short_sha1(spec)

\* main: "{:02}-{}".format(i, spec.short_sha1)
Suffix(n, spec) == Format02(n) \o "-" \o short_sha1(spec)

CheckoutCmd(repo_path, commit) == << "git", "-C", repo_path, "checkout", commit >>

MakeCmd(build_path, j) ==
    << "make", "-C", build_path, "MAKEINFO=true", "-j", ToString(j) >>

MakeCheckCmd(build_path, runtest_flags, tests) ==
    LET p     == PathJoin(build_path, "gdb")
        flags == IF Len(runtest_flags) > 0 THEN ShlexQuote(runtest_flags)
                                           ELSE runtest_flags
        cmd   == << "make", "-C", p, "check", "RUNTESTFLAGS=" \o flags >>
    IN  IF Len(tests) > 0 THEN Append(cmd, "TESTS=\"" \o tests \o "\"") ELSE cmd

CopyCmd(source, dest) == << "cp", source, dest >>

\* test_spec: the destination of a result file
DestName(res_path, file, suffix) == res_path \o "/" \o file \o "." \o suffix

SumDest(spec, suffix) == DestName(spec.results_path, "gdb.sum", suffix)
LogDest(spec, suffix) == DestName(spec.results_path, "gdb.log", suffix)

StepNames == << "checkout", "make", "make_check", "copy_sum", "copy_log" >>

\* The five execute() calls of test_spec(spec, suffix), in program order.
TestSpecCmds(spec, suffix) ==
    << CheckoutCmd(spec.src_path, spec.sha1),
       MakeCmd(spec.build_path, spec.j),
       MakeCheckCmd(spec.build_path, spec.runtest_flags, spec.tests),
       CopyCmd(PathJoin(PathJoin(PathJoin(spec.build_path, "gdb"), "testsuite"), "gdb.sum"),
               SumDest(spec, suffix)),
       CopyCmd(PathJoin(PathJoin(PathJoin(spec.build_path, "gdb"), "testsuite"), "gdb.log"),
               LogDest(spec, suffix)) >>

\* Variant of CheckFlag: make_check leaves check at its default too.
CheckFlagAlways(name) == TRUE

\* The check argument execute() gets from each caller: make_check passes
\* False, checkout, make and copy leave the default True.
CheckFlag(name) == name # "make_check"

\* compare_results(before, after): the three lines it prints
CompareResults(before, after) ==
    << "  meld " \o before \o " " \o after,
       "  kdiff3 " \o before \o " " \o after,
       "  diff -u " \o before \o " " \o after >>

(***************************************************************************)
(* The environment: the command line and the external git commands.        *)
(***************************************************************************)
\* Ids of the commits of the repository.  ShaA and ShaB share their first
\* twelve characters.
ShaA == "a1b2c3d4e5f60000000000000000000000000001"
ShaB == "a1b2c3d4e5f60000000000000000000000000002"
ShaC == "0123456789abcdef0123456789abcdef01234567"
ShaD == "fedcba9876543210fedcba9876543210fedcba98"
Shas == { ShaA, ShaB, ShaC, ShaD }
\* Id of an annotated tag: a tag object, which names a commit but is not one.
ShaT == "7a97a97a97a97a97a97a97a97a97a97a97a97a90"
\* The commit the annotated tag names.
TagTarget == ShaD
\* The commit an id names: the id itself, or the commit of the tag.
CommitOf(id) == IF id = ShaT THEN TagTarget ELSE id

\* The revision the source tree is at when the program starts.
OrigRev == "orig"

\* What tempfile.mkdtemp(prefix="gdb-check") returns.
TmpDir == "/tmp/gdb-checkx7k2p9qa"
\* main: results_path of a dry run
TempDirPlaceholder == "<temp_dir>"

\* The command lines the runs are started with: with and without test
\* filters, in each of the four modes.
ArgSets ==
  { a \in
    [ dry_run             : BOOLEAN,
      all_commits         : BOOLEAN,
      before_ref          : { "v1" },
      after_ref           : { "v2" },
      j                   : { 1 },
      runtestflags        : { "", "--directory=gdb.python" },
      runtestflags_before : { "" },
      runtestflags_after  : { "" },
      tests               : { "", "gdb.base/break.exp" },
      source              : { "/src/binutils-gdb" },
      build               : { "/build" } ] :
    (a.runtestflags = "") <=> (a.tests = "") }

\* Exit statuses of an external command.
ExitStatuses == { 0, 2 }

\* The objects a reference of the command line may name: a commit, or the
\* annotated tag.
Resolvable(ref) ==
    IF ref = "v1" THEN { ShaA, ShaC, ShaD, ShaT } ELSE { ShaA, ShaB, ShaT }

\* git rev-parse <commit>: the id of the named object and a newline (for an
\* annotated tag the id of the tag object, not of the commit it names), or
\* a failure.
RevParseOutcomes(ref) ==
    { [ rc |-> 0, stdout |-> CodePoints(s) \o << LF >> ] : s \in Resolvable(ref) }
        \cup { [ rc |-> 128, stdout |-> << >> ] }

InjectiveSeqs(S, n) ==
    { f \in [ 1..n -> S ] : \A a, b \in 1..n : a # b => f[a] # f[b] }

RECURSIVE Lines(_)
Lines(revs) ==
    IF Len(revs) = 0 THEN << >>
    ELSE CodePoints(Head(revs)) \o << LF >> \o Lines(Tail(revs))

\* git rev-list --reverse before^..after: distinct commit ids, one per
\* line, oldest first; nothing at all when the range is empty (after is an
\* ancestor of the parent of before); or a failure (before has no parent).
\* The last id is the commit after names: after itself when after is a
\* commit, the tagged commit, whose id is not after, when after is the tag
\* object.
RevListOutcomes(before, after) ==
    { [ rc |-> 0, stdout |-> Lines(f) ] :
        f \in { g \in UNION { InjectiveSeqs(Shas, n) : n \in 0..MaxRevs } :
                  /\ Len(g) > 0 => g[Len(g)] = CommitOf(after)
                  /\ CommitOf(before) = CommitOf(after) => Len(g) > 0 } }
        \cup { [ rc |-> 128, stdout |-> << >> ] }

\* The subject of a commit as git log prints it for %s.  git removes the
\* blanks, tabs and carriage returns that end the line and leaves every
\* other character: the subject of ShaB ends with a form feed, that of ShaC
\* with U+3000, and that of ShaD has a carriage return in the middle.
SubjectOf(commit) ==
    LET tail == CodePoints("of " \o Prefix(commit, 4)) IN
    IF commit = ShaB THEN CodePoints("subject ") \o tail \o << 12 >>
    ELSE IF commit = ShaC THEN CodePoints("subject ") \o tail \o << 12288 >>
    ELSE IF commit = ShaD THEN CodePoints("subject") \o << CR >> \o tail
    ELSE CodePoints("subject ") \o tail

\* git log --format=... -n 1 <commit>: the line of the commit the id names,
\* or a failure.  git does not take the empty string for a revision: it
\* exits with status 128.
GitLogOutcomes(commit) ==
    IF commit = ""
    THEN { [ rc |-> 128, stdout |-> << >> ] }
    ELSE { [ rc |-> 0, stdout |-> CodePoints("A U Thor  ")
                                     \o SubjectOf(CommitOf(commit)) \o << LF >> ],
           [ rc |-> 128, stdout |-> << >> ] }

(***************************************************************************)
(* Initial state: main() is entered with the parsed arguments.             *)
(***************************************************************************)
Init ==
    /\ args \in ArgSets
    /\ pc = "start"
    /\ results_path = ""
    /\ before_sha1 = ""
    /\ after_sha1 = ""
    /\ rev_stdout = << >>
    /\ rev_list = << >>
    /\ specs_to_test = << >>
    /\ i = 0
    /\ step = 1
    /\ cmds = << >>
    /\ launched = << >>
    /\ rcs = << >>
    /\ running = {}
    /\ queries = << >>
    /\ out = << >>
    /\ comparisons = << >>
    /\ tmpdirs = {}
    /\ slept = FALSE
    /\ worktree = OrigRev
    /\ builddir = [ built |-> OrigRev, tested |-> OrigRev ]
    /\ files = {}
    /\ failed = "none"
    /\ exit_code = -1

\* Variant of Crash: the error of a command of test_spec is swallowed and
\* the command is run again.
CrashRetries(what) ==
    IF what \in { StepNames[n] : n \in 1..Len(StepNames) }
    THEN /\ pc' = "exec"
         /\ UNCHANGED << failed, exit_code >>
    ELSE /\ pc' = "crashed"
         /\ failed' = what
         /\ exit_code' = 1

\* An uncaught exception ends the program with a traceback and status 1.
Crash(what) ==
    /\ pc' = "crashed"
    /\ failed' = what
    /\ exit_code' = 1

(***************************************************************************)
(* main, lines 222-246.                                                    *)
(***************************************************************************)
\* lines 222-240: results_path and the other locals
Setup ==
    /\ pc = "start"
    /\ IF ~args.dry_run
       THEN /\ tmpdirs' = tmpdirs \cup { TmpDir }
            /\ results_path' = TmpDir
       ELSE /\ tmpdirs' = tmpdirs
            /\ results_path' = TempDirPlaceholder
    /\ pc' = "resolve_before"
    /\ UNCHANGED << args, before_sha1, after_sha1, rev_stdout, rev_list,
                    specs_to_test, i, step, cmds, launched, rcs, running,
                    queries, out, comparisons, slept, worktree, builddir,
                    files, failed, exit_code >>

\* One subprocess.check_output call: its command and its exit status.
Query(argv, outcome) == [ argv |-> argv, rc |-> outcome.rc ]

RevParseQuery(repo_path, commit) == << "git", "-C", repo_path, "rev-parse", commit >>

\* Variant of ResolveFailed: the handler exits with status 0.
ResolveFailedExitZero ==
    /\ pc' = "exited"
    /\ failed' = "resolve"
    /\ exit_code' = 0

\* except subprocess.CalledProcessError: sys.exit(1)
ResolveFailed ==
    /\ pc' = "exited"
    /\ failed' = "resolve"
    /\ exit_code' = 1

\* line 243: before_sha1 = resolve_to_sha1(src_path, before_ref)
ResolveBefore ==
    /\ pc = "resolve_before"
    /\ \E o \in RevParseOutcomes(args.before_ref) :
         /\ queries' = Append(queries, Query(RevParseQuery(args.source, args.before_ref), o))
         /\ IF o.rc = 0
            THEN /\ before_sha1' = Str(Strip(UniversalNewlines(o.stdout)))
                 /\ pc' = "resolve_after"
                 /\ UNCHANGED << failed, exit_code >>
            ELSE /\ ResolveFailed
                 /\ UNCHANGED before_sha1
    /\ UNCHANGED << args, results_path, after_sha1, rev_stdout, rev_list,
                    specs_to_test, i, step, cmds, launched, rcs, running,
                    out, comparisons, tmpdirs, slept, worktree, builddir,
                    files >>

\* line 244: after_sha1 = resolve_to_sha1(src_path, after_ref)
ResolveAfter ==
    /\ pc = "resolve_after"
    /\ \E o \in RevParseOutcomes(args.after_ref) :
         /\ queries' = Append(queries, Query(RevParseQuery(args.source, args.after_ref), o))
         /\ IF o.rc = 0
            THEN /\ after_sha1' = Str(Strip(UniversalNewlines(o.stdout)))
                 /\ pc' = "rev_list"
                 /\ UNCHANGED << failed, exit_code >>
            ELSE /\ ResolveFailed
                 /\ UNCHANGED after_sha1
    /\ UNCHANGED << args, results_path, before_sha1, rev_stdout, rev_list,
                    specs_to_test, i, step, cmds, launched, rcs, running,
                    out, comparisons, tmpdirs, slept, worktree, builddir,
                    files >>

(***************************************************************************)
(* main, lines 248-307.                                                    *)
(***************************************************************************)
RevListQuery(repo_path, before, after) ==
    << "git", "-C", repo_path, "rev-list", "--reverse", before \o "^.." \o after >>

GitLogQuery(repo_path, commit) ==
    << "git", "-C", repo_path, "log", "--format=%aN  %s", "-n", "1", commit >>

\* line 248: rev_list = get_rev_list(src_path, before_sha1, after_sha1);
\* a CalledProcessError is not caught.
GetRevList ==
    /\ pc = "rev_list"
    /\ \E o \in RevListOutcomes(before_sha1, after_sha1) :
         /\ queries' = Append(queries, Query(RevListQuery(args.source, before_sha1, after_sha1), o))
         /\ IF o.rc = 0
            THEN /\ rev_stdout' = o.stdout
                 /\ rev_list' =
                      LET fields == Split(Strip(UniversalNewlines(o.stdout)), LF)
                      IN  [ k \in 1..Len(fields) |-> Str(fields[k]) ]
                 /\ pc' = "build_specs"
                 /\ UNCHANGED << failed, exit_code >>
            ELSE /\ Crash("rev_list")
                 /\ UNCHANGED << rev_stdout, rev_list >>
    /\ UNCHANGED << args, results_path, before_sha1, after_sha1,
                    specs_to_test, i, step, cmds, launched, rcs, running,
                    out, comparisons, tmpdirs, slept, worktree, builddir,
                    files >>

\* lines 237-238
RuntestFlagsBefore == Join(<< args.runtestflags_before, args.runtestflags >>, " ")
RuntestFlagsAfter == Join(<< args.runtestflags_after, args.runtestflags >>, " ")

\* lines 249-258 and 272-292: the specs to test
BuildSpecs ==
    /\ pc = "build_specs"
    /\ IF args.all_commits
       THEN /\ specs_to_test' =
                 [ k \in 1..Len(rev_list) |->
                     BuildAndTestSpec(args.source, args.build, results_path,
                                      rev_list[k], args.j, args.runtestflags,
                                      args.tests) ]
            /\ out' = Append(out, "Test all commits between:")
       ELSE /\ specs_to_test' =
                 << BuildAndTestSpec(args.source, args.build, results_path,
                                     before_sha1, args.j, RuntestFlagsBefore,
                                     args.tests),
                    BuildAndTestSpec(args.source, args.build, results_path,
                                     after_sha1, args.j, RuntestFlagsAfter,
                                     args.tests) >>
            /\ out' = out
    /\ pc' = "summary_first"
    /\ UNCHANGED << args, results_path, before_sha1, after_sha1, rev_stdout,
                    rev_list, i, step, cmds, launched, rcs, running, queries,
                    comparisons, tmpdirs, slept, worktree, builddir, files,
                    failed, exit_code >>

\* Variant of PrintSummary: a failure of get_commit_summary is swallowed
\* and the line is not printed.
PrintSummaryIgnoringFailure(label, spec, then) ==
    /\ \E o \in GitLogOutcomes(spec.sha1) :
         /\ queries' = Append(queries, Query(GitLogQuery(args.source, spec.sha1), o))
         /\ out' = IF o.rc = 0
                   THEN Append(out, label \o short_sha1(spec) \o "  " \o Str(Strip(UniversalNewlines(o.stdout))))
                   ELSE out
    /\ pc' = then
    /\ UNCHANGED << args, results_path, before_sha1, after_sha1, rev_stdout,
                    rev_list, specs_to_test, i, step, cmds, launched, rcs,
                    running, comparisons, tmpdirs, slept, worktree, builddir,
                    files, failed, exit_code >>

\* One print of "<label>{}  {}".format(spec.short_sha1,
\* get_commit_summary(src_path, spec.sha1)); a CalledProcessError of
\* get_commit_summary is not caught.
PrintSummary(label, spec, then) ==
    /\ \E o \in GitLogOutcomes(spec.sha1) :
         /\ queries' = Append(queries, Query(GitLogQuery(args.source, spec.sha1), o))
         /\ IF o.rc = 0
            THEN /\ out' = Append(out, label \o short_sha1(spec) \o "  " \o Str(Strip(UniversalNewlines(o.stdout))))
                 /\ pc' = then
                 /\ UNCHANGED << failed, exit_code >>
            ELSE /\ Crash("summary")
                 /\ UNCHANGED out
    /\ UNCHANGED << args, results_path, before_sha1, after_sha1, rev_stdout,
                    rev_list, specs_to_test, i, step, cmds, launched, rcs,
                    running, comparisons, tmpdirs, slept, worktree, builddir,
                    files >>

\* lines 259-264 and 294-298: specs_to_test[0]
SummaryFirst ==
    /\ pc = "summary_first"
    /\ PrintSummary(IF args.all_commits THEN "  " ELSE "Before: ",
                    specs_to_test[1], "summary_last")

\* lines 265-270 and 299-303: specs_to_test[-1]
SummaryLast ==
    /\ pc = "summary_last"
    /\ PrintSummary(IF args.all_commits THEN "  " ELSE "After:  ",
                    specs_to_test[Len(specs_to_test)], "sleep")

\* lines 305-307, then the for statement of line 309 is entered
Sleep ==
    /\ pc = "sleep"
    /\ slept' = (slept \/ ~args.dry_run)
    /\ i' = 0
    /\ step' = 1
    /\ pc' = IF Len(specs_to_test) = 0 THEN "report" ELSE "exec"
    /\ UNCHANGED << args, results_path, before_sha1, after_sha1, rev_stdout,
                    rev_list, specs_to_test, cmds, launched, rcs, running,
                    queries, out, comparisons, tmpdirs, worktree, builddir,
                    files, failed, exit_code >>

(***************************************************************************)
(* The loop of lines 309-310: test_spec and execute.                       *)
(***************************************************************************)
\* The execute() call the control is at.
CurrentCall ==
    LET spec == specs_to_test[i + 1]
        cmd  == TestSpecCmds(spec, Suffix(i, spec))[step]
    IN  [ i |-> i, step |-> StepNames[step], argv |-> cmd, line |-> Join(cmd, " ") ]

\* After execute() returns: the next call of test_spec, the next spec of
\* the loop, or the statements after the loop.
Continue ==
    IF step < Len(StepNames)
    THEN /\ pc' = "exec"
         /\ step' = step + 1
         /\ i' = i
    ELSE /\ pc' = IF i + 1 < Len(specs_to_test) THEN "exec" ELSE "report"
         /\ step' = 1
         /\ i' = i + 1

\* Variant of Execute: the dry_run argument is not looked at.
ExecuteIgnoringDryRun ==
    /\ pc = "exec"
    /\ cmds' = Append(cmds, CurrentCall)
    /\ launched' = Append(launched, CurrentCall)
    /\ running' = running \cup { Len(launched) + 1 }
    /\ pc' = "wait"
    /\ UNCHANGED << args, results_path, before_sha1, after_sha1, rev_stdout,
                    rev_list, specs_to_test, i, step, rcs, queries, out,
                    comparisons, tmpdirs, slept, worktree, builddir, files,
                    failed, exit_code >>

\* Variant of Execute: the line is printed only when it is executed.
ExecuteSilentDryRun ==
    /\ pc = "exec"
    /\ IF args.dry_run
       THEN /\ Continue
            /\ UNCHANGED << cmds, launched, running >>
       ELSE /\ cmds' = Append(cmds, CurrentCall)
            /\ launched' = Append(launched, CurrentCall)
            /\ running' = running \cup { Len(launched) + 1 }
            /\ pc' = "wait"
            /\ UNCHANGED << i, step >>
    /\ UNCHANGED << args, results_path, before_sha1, after_sha1, rev_stdout,
                    rev_list, specs_to_test, rcs, queries, out, comparisons,
                    tmpdirs, slept, worktree, builddir, files, failed,
                    exit_code >>

\* Variant of Execute: the process is started and not waited for.
ExecuteWithoutWaiting ==
    /\ pc = "exec"
    /\ cmds' = Append(cmds, CurrentCall)
    /\ IF args.dry_run
       THEN UNCHANGED << launched, running >>
       ELSE /\ launched' = Append(launched, CurrentCall)
            /\ running' = running \cup { Len(launched) + 1 }
    /\ Continue
    /\ UNCHANGED << args, results_path, before_sha1, after_sha1, rev_stdout,
                    rev_list, specs_to_test, rcs, queries, out, comparisons,
                    tmpdirs, slept, worktree, builddir, files, failed,
                    exit_code >>

\* execute, lines 14-22 up to the start of the process: print the line;
\* in a dry run return, else start the shell and wait for it.
Execute ==
    /\ pc = "exec"
    /\ cmds' = Append(cmds, CurrentCall)
    /\ IF args.dry_run
       THEN /\ Continue
            /\ UNCHANGED << launched, running >>
       ELSE /\ launched' = Append(launched, CurrentCall)
            /\ running' = running \cup { Len(launched) + 1 }
            /\ pc' = "wait"
            /\ UNCHANGED << i, step >>
    /\ UNCHANGED << args, results_path, before_sha1, after_sha1, rev_stdout,
                    rev_list, specs_to_test, rcs, queries, out, comparisons,
                    tmpdirs, slept, worktree, builddir, files, failed,
                    exit_code >>

\* What the command that exited with status rc did to the source tree, the
\* build directory and the results directory.
Effect(call, rc) ==
    /\ worktree' = IF call.step = "checkout" /\ rc = 0
                   THEN CommitOf(call.argv[5])
                   ELSE worktree
    /\ builddir' =
         IF call.step = "make"
         THEN [ builddir EXCEPT !.built = IF rc = 0 THEN worktree ELSE "partial" ]
         ELSE IF call.step = "make_check"
         THEN [ builddir EXCEPT !.tested = IF rc = 0 THEN worktree ELSE "partial" ]
         ELSE builddir
    /\ files' = IF call.step \in { "copy_sum", "copy_log" } /\ rc = 0
                THEN files \cup { call.argv[3] }
                ELSE files

\* execute, lines 19-22: the process exits; check_call raises
\* CalledProcessError on a non-zero status, call returns it.
ProcessExit ==
    /\ pc = "wait"
    /\ \E rc \in ExitStatuses :
         /\ rcs' = Append(rcs, rc)
         /\ running' = running \ { Len(launched) }
         /\ Effect(launched[Len(launched)], rc)
         /\ IF rc # 0 /\ CheckFlag(launched[Len(launched)].step)
            THEN /\ Crash(launched[Len(launched)].step)
                 /\ UNCHANGED << i, step >>
            ELSE /\ Continue
                 /\ UNCHANGED << failed, exit_code >>
    /\ UNCHANGED << args, results_path, before_sha1, after_sha1, rev_stdout,
                    rev_list, specs_to_test, cmds, launched, queries, out,
                    comparisons, tmpdirs, slept >>

(***************************************************************************)
(* main, lines 312-332: the report.                                        *)
(***************************************************************************)
\* Variant of ReportName: the index is not padded to two digits.
ReportNameUnpadded(n, spec) ==
    results_path \o "/gdb.sum." \o ToString(n) \o "-" \o short_sha1(spec)

\* "{}/gdb.sum.{:02}-{}".format(results_path, n, spec.short_sha1)
ReportName(n, spec) ==
    results_path \o "/gdb.sum." \o Format02(n) \o "-" \o short_sha1(spec)

\* Variant of HasIncremental: the section is printed from two specs on.
HasIncrementalFromTwo == Len(specs_to_test) >= 2

\* line 315: the incremental section is printed for more than two specs
HasIncremental == Len(specs_to_test) > 2

\* line 318: zip(specs_to_test[:-1], specs_to_test[1:]), enumerated from 0
IncrementalCalls ==
    [ k \in 1..(Len(specs_to_test) - 1) |->
        [ section |-> "incremental",
          before  |-> ReportName(k - 1, specs_to_test[k]),
          after   |-> ReportName(k, specs_to_test[k + 1]) ] ]

\* lines 327-332
FinalCall ==
    [ section |-> "final",
      before  |-> ReportName(0, specs_to_test[1]),
      after   |-> ReportName(Len(specs_to_test) - 1,
                             specs_to_test[Len(specs_to_test)]) ]

RECURSIVE IncrementalLines(_)
IncrementalLines(calls) ==
    IF Len(calls) = 0 THEN << >>
    ELSE CompareResults(Head(calls).before, Head(calls).after) \o << "" >>
         \o IncrementalLines(Tail(calls))

Report ==
    /\ pc = "report"
    /\ comparisons' = comparisons
                      \o (IF HasIncremental THEN IncrementalCalls ELSE << >>)
                      \o << FinalCall >>
    /\ out' = out
              \o << "You can run one of these commands to view differences in test results.", "" >>
              \o (IF HasIncremental
                  THEN << "Incremental results:", "" >> \o IncrementalLines(IncrementalCalls)
                  ELSE << >>)
              \o << "Results between before and after:", "" >>
              \o CompareResults(FinalCall.before, FinalCall.after)
    /\ pc' = "done"
    /\ exit_code' = 0
    /\ UNCHANGED << args, results_path, before_sha1, after_sha1, rev_stdout,
                    rev_list, specs_to_test, i, step, cmds, launched, rcs,
                    running, queries, tmpdirs, slept, worktree, builddir,
                    files, failed >>

Next ==
    \/ Setup
    \/ ResolveBefore
    \/ ResolveAfter
    \/ GetRevList
    \/ BuildSpecs
    \/ SummaryFirst
    \/ SummaryLast
    \/ Sleep
    \/ Execute
    \/ ProcessExit
    \/ Report

Spec == Init /\ [][Next]_vars

(***************************************************************************)
(* Vocabulary of the properties.                                           *)
(***************************************************************************)
NumSteps == Len(StepNames)

CopySteps == { "copy_sum", "copy_log" }

LinesOf(calls) == [ k \in 1..Len(calls) |-> calls[k].line ]

\* The k-th execute() call of a whole run over specs: spec (k-1) \div 5,
\* call ((k-1) % 5) + 1 of test_spec.
CallAt(specs, k) ==
    LET n   == (k - 1) \div NumSteps
        st  == ((k - 1) % NumSteps) + 1
        cmd == TestSpecCmds(specs[n + 1], Suffix(n, specs[n + 1]))[st]
    IN  [ i |-> n, step |-> StepNames[st], argv |-> cmd, line |-> Join(cmd, " ") ]

AllCalls(specs) == [ k \in 1..(Len(specs) * NumSteps) |-> CallAt(specs, k) ]

\* The same specs with another results directory.
WithResultsPath(specs, dir) ==
    [ k \in 1..Len(specs) |-> [ specs[k] EXCEPT !.results_path = dir ] ]

\* What a dry run over the same arguments and the same revisions prints.
DryRunCalls == AllCalls(WithResultsPath(specs_to_test, TempDirPlaceholder))
DryRunCall(k) == CallAt(WithResultsPath(specs_to_test, TempDirPlaceholder), k)

StartsWith(s, head) == Len(s) >= Len(head) /\ SubSeq(s, 1, Len(head)) = head
After(s, head) == SubSeq(s, Len(head) + 1, Len(s))

\* Two calls that are the same command, but for the results directory of
\* the destination of a cp.
SameButResultsDir(real, dry, realdir, drydir) ==
    /\ real.i = dry.i
    /\ real.step = dry.step
    /\ IF real.step \in CopySteps
       THEN /\ Len(real.argv) = Len(dry.argv)
            /\ real.argv[1] = dry.argv[1]
            /\ real.argv[2] = dry.argv[2]
            /\ StartsWith(real.argv[3], realdir \o "/")
            /\ StartsWith(dry.argv[3], drydir \o "/")
            /\ After(real.argv[3], realdir) = After(dry.argv[3], drydir)
       ELSE real.line = dry.line

\* The revisions git rev-list printed, read off its output line by line.
RevCount == Cardinality(SepPositions(rev_stdout, LF))
RangeRevs ==
    LET pos == SepPositions(rev_stdout, LF)
    IN  [ n \in 1..Cardinality(pos) |->
            Str(SubSeq(rev_stdout,
                       IF n = 1 THEN 1 ELSE NthPosition(pos, n - 1) + 1,
                       NthPosition(pos, n) - 1)) ]

\* TRUE once a query of that kind has failed / succeeded.
QueryDone(kind, ok) ==
    \E k \in 1..Len(queries) :
        queries[k].argv[4] = kind /\ ((queries[k].rc = 0) <=> ok)

Checkouts == SelectSeq(cmds, LAMBDA c : c.step = "checkout")
IncrementalComparisons == SelectSeq(comparisons, LAMBDA c : c.section = "incremental")
FinalComparisons == SelectSeq(comparisons, LAMBDA c : c.section = "final")

\* The files the printed comparison commands name.
NamedFiles ==
    { comparisons[k].before : k \in 1..Len(comparisons) }
        \cup { comparisons[k].after : k \in 1..Len(comparisons) }

\* Destination of the copy of gdb.sum that test_spec printed for spec n.
PrintedSumDest(n) == cmds[n * NumSteps + 4].argv[3]

OutHas(text) == \E k \in 1..Len(out) : out[k] = text

(***************************************************************************)
(* C1.  In a dry run no mutating external command is executed: execute()   *)
(* starts no process (no git checkout, make, make check, cp), no temporary *)
(* directory is created, there is no sleep, and the source tree, the       *)
(* build directory and the results directory stay as they were; the only   *)
(* commands run are the git queries rev-parse, rev-list and log.           *)
(***************************************************************************)
C1_DryRunMutatesNothing ==
    args.dry_run =>
        /\ launched = << >>
        /\ rcs = << >>
        /\ running = {}
        /\ tmpdirs = {}
        /\ ~slept
        /\ worktree = OrigRev
        /\ builddir = [ built |-> OrigRev, tested |-> OrigRev ]
        /\ files = {}
        /\ \A k \in 1..Len(queries) :
             /\ queries[k].argv[1] = "git"
             /\ queries[k].argv[4] \in { "rev-parse", "rev-list", "log" }

C1_Witness ==
    /\ args.dry_run
    /\ pc = "done"
    /\ Len(specs_to_test) = 3
    /\ Len(cmds) = 3 * NumSteps
    /\ Len(queries) = 5

(***************************************************************************)
(* C2 as stated.  The command lines a real run executes are, line for      *)
(* line, the command lines a dry run over the same arguments and the same  *)
(* revisions prints.                                                       *)
(***************************************************************************)
C2_SameLinesAsDryRun ==
    (~args.dry_run /\ pc = "done") =>
        LinesOf(launched) = LinesOf(DryRunCalls)

(***************************************************************************)
(* C2 amended.  A dry run prints checkout, make, make check, cp gdb.sum,   *)
(* cp gdb.log for each spec in order.  A real run executes the same        *)
(* commands in the same order, identical line for line except that the     *)
(* destination of each cp is under the created temporary directory where   *)
(* the dry run prints <temp_dir>; a real run that is aborted by a fatal    *)
(* step has executed a prefix of that sequence.                            *)
(***************************************************************************)
C2_SameCommandsUpToResultsDir ==
    /\ (args.dry_run /\ pc \in { "report", "done" }) =>
           /\ results_path = TempDirPlaceholder
           /\ cmds = DryRunCalls
    /\ (~args.dry_run /\ pc \in { "report", "done", "crashed" }) =>
           /\ Len(launched) <= Len(specs_to_test) * NumSteps
           /\ \A k \in 1..Len(launched) :
                SameButResultsDir(launched[k], DryRunCall(k),
                                  results_path, TempDirPlaceholder)
           /\ pc \in { "report", "done" } =>
                Len(launched) = Len(specs_to_test) * NumSteps
           /\ results_path # TempDirPlaceholder

C2_Witness ==
    /\ ~args.dry_run
    /\ pc = "done"
    /\ Len(launched) = 2 * NumSteps
    /\ LinesOf(launched) # LinesOf(DryRunCalls)

(***************************************************************************)
(* C3.  In a real run a non-zero exit of make aborts the program there.    *)
(* A non-zero exit of make check is tolerated: the next call is the copy   *)
(* of gdb.sum of the same spec, the run is never aborted because of it,    *)
(* and a run that reaches the end exits with status 0.                     *)
(***************************************************************************)
C3_BuildFatalTestTolerated ==
    /\ \A k \in 1..Len(rcs) :
         rcs[k] # 0 =>
           /\ launched[k].step = "make" =>
                /\ pc = "crashed"
                /\ failed = "make"
                /\ k = Len(launched)
                /\ comparisons = << >>
           /\ launched[k].step = "make_check" =>
                /\ failed # "make_check"
                /\ k = Len(launched) =>
                     /\ pc = "exec"
                     /\ i = launched[k].i
                     /\ StepNames[step] = "copy_sum"
                /\ k < Len(launched) =>
                     /\ launched[k + 1].i = launched[k].i
                     /\ launched[k + 1].step = "copy_sum"
    /\ pc = "crashed" /\ failed \in { StepNames[n] : n \in 1..NumSteps } =>
         /\ launched[Len(launched)].step = failed
         /\ rcs[Len(launched)] # 0
    /\ pc = "done" =>
         /\ exit_code = 0
         /\ ~args.dry_run => Len(rcs) = Len(specs_to_test) * NumSteps

C3_Witness ==
    /\ ~args.dry_run
    /\ pc = "done"
    /\ Len(specs_to_test) = 3
    /\ rcs[3] # 0
    /\ launched[3].step = "make_check"
    /\ Len(comparisons) = 3
    /\ exit_code = 0

(***************************************************************************)
(* C4.  When git rev-parse fails for the before or for the after           *)
(* reference, the program exits with status 1; rev-parse was run once per  *)
(* reference at most and nothing else was run; no command line and no      *)
(* comparison command was printed or executed.                             *)
(***************************************************************************)
C4_ResolveFailureExits ==
    QueryDone("rev-parse", FALSE) =>
        /\ pc = "exited"
        /\ exit_code = 1
        /\ cmds = << >>
        /\ launched = << >>
        /\ comparisons = << >>
        /\ out = << >>
        /\ Len(queries) \in { 1, 2 }
        /\ queries[1].argv[5] = args.before_ref
        /\ Len(queries) = 2 =>
             /\ queries[1].rc = 0
             /\ queries[2].argv[4] = "rev-parse"
             /\ queries[2].argv[5] = args.after_ref
        /\ queries[Len(queries)].rc # 0

C4_Witness ==
    /\ pc = "exited"
    /\ Len(queries) = 2
    /\ queries[2].rc # 0
    /\ ~args.dry_run

(***************************************************************************)
(* C5.  In all-commits mode a run that reaches the end has run test_spec   *)
(* once per revision of the range, in the order of the range.  With more   *)
(* than two specs the report has one comparison per adjacent pair (spec n  *)
(* against spec n+1) and one comparison of the first against the last;     *)
(* with two specs it has no incremental section and one comparison.        *)
(***************************************************************************)
C5_OneRunPerRevision ==
    pc = "done" =>
        /\ args.all_commits =>
             /\ Len(Checkouts) = RevCount
             /\ Len(cmds) = RevCount * NumSteps
             /\ \A n \in 1..RevCount : Checkouts[n].i = n - 1
             /\ [ n \in 1..RevCount |-> Checkouts[n].argv[5] ] = RangeRevs
             /\ ~args.dry_run => launched = cmds
        /\ Len(FinalComparisons) = 1
        /\ comparisons[Len(comparisons)] =
               [ section |-> "final",
                 before  |-> PrintedSumDest(0),
                 after   |-> PrintedSumDest(Len(Checkouts) - 1) ]
        /\ Len(Checkouts) > 2 =>
             /\ OutHas("Incremental results:")
             /\ Len(IncrementalComparisons) = Len(Checkouts) - 1
             /\ Len(comparisons) = Len(Checkouts)
             /\ \A n \in 1..(Len(Checkouts) - 1) :
                  comparisons[n] =
                      [ section |-> "incremental",
                        before  |-> PrintedSumDest(n - 1),
                        after   |-> PrintedSumDest(n) ]
        /\ Len(Checkouts) = 2 =>
             /\ ~OutHas("Incremental results:")
             /\ Len(comparisons) = 1

C5_Witness ==
    /\ pc = "done"
    /\ args.all_commits
    /\ RevCount = 3
    /\ Len(IncrementalComparisons) = 2
    /\ Len(FinalComparisons) = 1

(***************************************************************************)
(* C6 as stated.  When the run reaches the report, every file a printed    *)
(* comparison command names was written by the copy of gdb.sum of an       *)
(* executed spec and is present in the results directory.                  *)
(***************************************************************************)
C6_NamedFilesProduced ==
    pc = "done" =>
        \A f \in NamedFiles :
            /\ f \in files
            /\ \E k \in 1..Len(rcs) :
                 /\ launched[k].step = "copy_sum"
                 /\ launched[k].argv[3] = f
                 /\ rcs[k] = 0

(***************************************************************************)
(* C6 amended.  When the run reaches the report, the files the comparison  *)
(* commands name are exactly the destinations of the copies of gdb.sum     *)
(* that test_spec printed (same directory, index and short id).  In a real *)
(* run each of them was written by a cp that exited with status 0 and is   *)
(* present; in a dry run none of them is produced.                         *)
(***************************************************************************)
C6_NamedFilesAreCopyDestinations ==
    pc = "done" =>
        /\ \A f \in NamedFiles :
             \E k \in 1..Len(cmds) :
                 cmds[k].step = "copy_sum" /\ cmds[k].argv[3] = f
        /\ \A k \in 1..Len(cmds) :
             cmds[k].step = "copy_sum" => cmds[k].argv[3] \in NamedFiles
        /\ ~args.dry_run =>
             \A f \in NamedFiles :
                 /\ f \in files
                 /\ \E k \in 1..Len(rcs) :
                      /\ launched[k].step = "copy_sum"
                      /\ launched[k].argv[3] = f
                      /\ rcs[k] = 0
        /\ args.dry_run => files = {}

C6_Witness ==
    /\ pc = "done"
    /\ ~args.dry_run
    /\ Len(specs_to_test) = 3
    /\ Cardinality(NamedFiles) = 3
    /\ NamedFiles \subseteq files

(***************************************************************************)
(* C7.  The destination of a copy is the results directory, the file name  *)
(* and the suffix joined; two copies of the same file with the same suffix *)
(* would have the same destination, and no two copies of one run have the  *)
(* same destination, whatever the number of specs and also when two specs  *)
(* have the same revision id.                                              *)
(***************************************************************************)
CopyFile(call) == IF call.step = "copy_sum" THEN "gdb.sum" ELSE "gdb.log"
CopySuffix(call) == Suffix(call.i, specs_to_test[call.i + 1])

C7_DestinationsDistinct ==
    \A a, b \in 1..Len(cmds) :
        (cmds[a].step \in CopySteps /\ cmds[b].step \in CopySteps) =>
            /\ a # b => cmds[a].argv[3] # cmds[b].argv[3]
            /\ cmds[a].argv[3] =
                   results_path \o "/" \o CopyFile(cmds[a]) \o "." \o CopySuffix(cmds[a])
            /\ (CopyFile(cmds[a]) = CopyFile(cmds[b])
                  /\ CopySuffix(cmds[a]) = CopySuffix(cmds[b]))
                 => cmds[a].argv[3] = cmds[b].argv[3]

C7_Witness ==
    /\ Len(specs_to_test) = 2
    /\ specs_to_test[1].sha1 = specs_to_test[2].sha1
    /\ Len(cmds) = 2 * NumSteps
    /\ cmds[4].argv[3] # cmds[9].argv[3]

(***************************************************************************)
(* C8.  The pipeline is sequential: the calls are made in the order        *)
(* checkout, make, make check, copy of gdb.sum, copy of gdb.log for spec   *)
(* 0, then the same for spec 1, and so on in list order; a process is      *)
(* started only when every earlier one has exited, so at most one external *)
(* command runs at any time.                                               *)
(***************************************************************************)
C8_OneCommandAtATime ==
    /\ Cardinality(running) <= 1
    /\ Len(launched) = Len(rcs) + Cardinality(running)
    /\ (running # {}) <=> (pc = "wait")
    /\ \A k \in 1..Len(cmds) :
         /\ cmds[k].i = (k - 1) \div NumSteps
         /\ cmds[k].step = StepNames[((k - 1) % NumSteps) + 1]
         /\ cmds[k].step = "checkout" =>
              cmds[k].argv[5] = specs_to_test[cmds[k].i + 1].sha1
    /\ Len(cmds) <= Len(specs_to_test) * NumSteps
    /\ ~args.dry_run => launched = cmds

C8_Witness ==
    /\ pc = "wait"
    /\ Len(launched) = NumSteps + 1
    /\ Len(rcs) = NumSteps
    /\ launched[Len(launched)].i = 1
    /\ launched[Len(launched)].step = "checkout"
    /\ running = { Len(launched) }

(***************************************************************************)
(* C9.  In a real run, when make or a copy of spec k exits with a non-zero *)
(* status, the program stops there: the source tree stays at the revision  *)
(* of spec k, the step was tried once, no later command is printed or      *)
(* executed and no comparison command is printed.                          *)
(***************************************************************************)
C9_FatalStepStopsTheRun ==
    \A k \in 1..Len(rcs) :
        (rcs[k] # 0 /\ launched[k].step \in { "make" } \cup CopySteps) =>
            /\ pc = "crashed"
            /\ failed = launched[k].step
            /\ exit_code # 0
            /\ k = Len(launched)
            /\ k = Len(cmds)
            /\ worktree = CommitOf(specs_to_test[launched[k].i + 1].sha1)
            /\ worktree # OrigRev
            /\ \A m \in 1..Len(launched) :
                 (launched[m].i = launched[k].i /\ launched[m].step = launched[k].step)
                     => m = k
            /\ comparisons = << >>
            /\ ~ENABLED Next

C9_Witness ==
    /\ pc = "crashed"
    /\ failed = "copy_sum"
    /\ launched[Len(launched)].i = 1
    /\ worktree = CommitOf(specs_to_test[2].sha1)
    /\ specs_to_test[1].sha1 # specs_to_test[2].sha1

(***************************************************************************)
(* C10.  Every checkout the pipeline prints or executes targets a          *)
(* non-empty revision id: one of the two resolved ids, or in all-commits   *)
(* mode a revision of the range listing.  When the range listing is empty  *)
(* in all-commits mode, nothing is checked out, built, tested, copied or   *)
(* compared.                                                               *)
(***************************************************************************)
C10_CheckoutTargetsAnId ==
    /\ cmds # << >> =>
         LET ids == IF args.all_commits
                    THEN { RangeRevs[n] : n \in 1..Len(RangeRevs) }
                    ELSE { before_sha1, after_sha1 }
         IN  \A k \in 1..Len(cmds) :
                 cmds[k].step = "checkout" =>
                     /\ cmds[k].argv[5] # ""
                     /\ cmds[k].argv[5] = specs_to_test[cmds[k].i + 1].sha1
                     /\ cmds[k].argv[5] \in ids
    /\ (args.all_commits /\ QueryDone("rev-list", TRUE) /\ RevCount = 0) =>
         /\ cmds = << >>
         /\ launched = << >>
         /\ comparisons = << >>
         /\ \A k \in 1..Len(out) : out[k] = "Test all commits between:"
         /\ pc \in { "build_specs", "summary_first", "crashed" }

C10_Witness ==
    /\ args.all_commits
    /\ QueryDone("rev-list", TRUE)
    /\ RevCount = 0
    /\ Len(specs_to_test) = 1
    /\ specs_to_test[1].sha1 = ""
    /\ pc = "crashed"
    /\ failed = "summary"

====
